---- MODULE Spec2Model ----
(***************************************************************************)
(* Model of the wildcard matchers of fastwildcompare.go:                   *)
(*   FastWildCompareAscii(strWild, strTame)        (lines 28-183)          *)
(*   FastWildCompareRuneSlices(rslcWild, rslcTame) (lines 192-347)         *)
(*                                                                         *)
(* Each routine is a state machine over its four indices.  One block of    *)
(* the Go code (a loop head, a loop body, a branch) is one step; a step is *)
(* a pure operator on the record of the routine's locals, and the action   *)
(* of that name applies it.  Go indices are 0-based; a read s[i] outside   *)
(* 0 <= i < len(s) is a run-time panic, modelled by pc = "panic".          *)
(* Symbols are code points; both routines are given the same sequences.    *)
(***************************************************************************)
EXTENDS Integers, Sequences, FiniteSets, TLC

\* Bounds of the model: longest pattern and longest subject explored.
MaxWildLen == 4
MaxTameLen == 3

\* Wildcard markers: '*' and '?' as code points.
Star == 42
Question == 63

\* Literal symbols used by the explored inputs: 'a', 'b'.
Literals == {97, 98}
\* A literal that occurs in no explored pattern: 'z'.
Fresh == 122

\* Patterns and subjects both range over literals and the marker values.
Symbols == Literals \cup {Star, Question}

SeqsUpTo(S, n) == UNION {[1..k -> S] : k \in 0..n}

VARIABLES strWild, strTame, ascii, runes, turn,
          iTameAtStar, nFallBacks

\* strWild, strTame: the arguments.  ascii, runes: the locals of the two
\* routines.  turn: whose step is next when both are run.
\* iTameAtStar and nFallBacks are history variables, read by no step of the
\* routines: the subject index the ASCII routine stood at when it met the
\* '*' run it handled last, and the number of fall-backs it has begun.

vars == <<strWild, strTame, ascii, runes, turn, iTameAtStar, nFallBacks>>

----------------------------------------------------------------------------
\* Go indexing: s[i] with a 0-based index, legal only inside the sequence.
InRange(s, i) == 0 <= i /\ i < Len(s)
At(s, i) == s[i + 1]

\* Locals of a call at entry: Go zero-initialises the four indices.
Entry ==
  [pc |-> "FirstLoop", iWild |-> 0, iTame |-> 0,
   iWildSequence |-> 0, iTameSequence |-> 0, ret |-> FALSE]

Return(st, b) == [st EXCEPT !.pc = "done", !.ret = b]
Panic(st) == [st EXCEPT !.pc = "panic"]
Goto(st, l) == [st EXCEPT !.pc = l]

Final == {"done", "panic"}

----------------------------------------------------------------------------
\* FastWildCompareAscii

\* FirstLoop with the pattern's end not anchored: a used-up pattern is taken
\* as a match whatever is left of the subject.
FirstLoopUnanchored(st, W, T) ==
  IF Len(T) <= st.iWild
  THEN IF Len(W) > st.iWild
       THEN Goto(st, "TrailingStars")
       ELSE Return(st, TRUE)
  ELSE IF Len(W) <= st.iWild
  THEN Return(st, TRUE)
  ELSE IF ~InRange(W, st.iWild)
  THEN Panic(st)
  ELSE IF At(W, st.iWild) = Star
  THEN [st EXCEPT !.iTame = st.iWild, !.pc = "SkipStars"]
  ELSE IF ~InRange(T, st.iWild)
  THEN Panic(st)
  ELSE IF At(W, st.iWild) # At(T, st.iWild) /\ At(W, st.iWild) # Question
  THEN Return(st, FALSE)
  ELSE [st EXCEPT !.iWild = @ + 1]

\* FirstLoop comparing a '?' of the pattern as a literal.
FirstLoopQuestionLiteral(st, W, T) ==
  IF Len(T) <= st.iWild
  THEN IF Len(W) > st.iWild
       THEN Goto(st, "TrailingStars")
       ELSE Return(st, TRUE)
  ELSE IF Len(W) <= st.iWild
  THEN Return(st, FALSE)
  ELSE IF ~InRange(W, st.iWild)
  THEN Panic(st)
  ELSE IF At(W, st.iWild) = Star
  THEN [st EXCEPT !.iTame = st.iWild, !.pc = "SkipStars"]
  ELSE IF ~InRange(T, st.iWild)
  THEN Panic(st)
  ELSE IF At(W, st.iWild) # At(T, st.iWild)
  THEN Return(st, FALSE)
  ELSE [st EXCEPT !.iWild = @ + 1]

\* FirstLoop starting the search one subject symbol after the '*': the
\* '*' is made to take at least one symbol.
FirstLoopStarTakesOne(st, W, T) ==
  IF Len(T) <= st.iWild
  THEN IF Len(W) > st.iWild
       THEN Goto(st, "TrailingStars")
       ELSE Return(st, TRUE)
  ELSE IF Len(W) <= st.iWild
  THEN Return(st, FALSE)
  ELSE IF ~InRange(W, st.iWild)
  THEN Panic(st)
  ELSE IF At(W, st.iWild) = Star
  THEN [st EXCEPT !.iTame = st.iWild + 1, !.pc = "SkipStars"]
  ELSE IF ~InRange(T, st.iWild)
  THEN Panic(st)
  ELSE IF At(W, st.iWild) # At(T, st.iWild) /\ At(W, st.iWild) # Question
  THEN Return(st, FALSE)
  ELSE [st EXCEPT !.iWild = @ + 1]

\* Lines 36-90: one pass of the first loop.
FirstLoop(st, W, T) ==
  IF Len(T) <= st.iWild
  THEN IF Len(W) > st.iWild
       THEN Goto(st, "TrailingStars")
       ELSE Return(st, TRUE)
  ELSE IF Len(W) <= st.iWild
  THEN Return(st, FALSE)
  ELSE IF ~InRange(W, st.iWild)
  THEN Panic(st)
  ELSE IF At(W, st.iWild) = Star
  THEN [st EXCEPT !.iTame = st.iWild, !.pc = "SkipStars"]
  ELSE IF ~InRange(T, st.iWild)
  THEN Panic(st)
  ELSE IF At(W, st.iWild) # At(T, st.iWild) /\ At(W, st.iWild) # Question
  THEN Return(st, FALSE)
  ELSE [st EXCEPT !.iWild = @ + 1]

\* TrailingStars letting a '?' pass like a '*' once the subject is used up.
TrailingStarsLax(st, W, T) ==
  IF ~InRange(W, st.iWild)
  THEN Panic(st)
  ELSE IF At(W, st.iWild) = Star \/ At(W, st.iWild) = Question
  THEN IF Len(W) <= st.iWild + 1
       THEN Return([st EXCEPT !.iWild = @ + 1], TRUE)
       ELSE [st EXCEPT !.iWild = @ + 1]
  ELSE Return(st, FALSE)

\* TrailingStars with an "if" for the "for": one '*' is stepped over, a
\* second one is not.
TrailingStarsOnce(st, W, T) ==
  IF ~InRange(W, st.iWild)
  THEN Panic(st)
  ELSE IF At(W, st.iWild) = Star
  THEN Return([st EXCEPT !.iWild = @ + 1], Len(W) <= st.iWild + 1)
  ELSE Return(st, FALSE)

\* Lines 40-48: the subject is used up; only '*' may remain in the pattern.
TrailingStars(st, W, T) ==
  IF ~InRange(W, st.iWild)
  THEN Panic(st)
  ELSE IF At(W, st.iWild) = Star
  THEN IF Len(W) <= st.iWild + 1
       THEN Return([st EXCEPT !.iWild = @ + 1], TRUE)
       ELSE [st EXCEPT !.iWild = @ + 1]
  ELSE Return(st, FALSE)

\* SkipStars without the run: the symbol after one '*' is searched for even
\* when it is another '*'.
SkipStarsOnce(st, W, T) ==
  LET s1 == [st EXCEPT !.iWild = @ + 1] IN
  IF Len(W) <= s1.iWild
  THEN Return(s1, TRUE)
  ELSE Goto(s1, "SeekEntry")

\* Lines 58-68: step over the first run of '*'.
SkipStars(st, W, T) ==
  LET s1 == [st EXCEPT !.iWild = @ + 1] IN
  IF Len(W) <= s1.iWild
  THEN Return(s1, TRUE)
  ELSE IF ~InRange(W, s1.iWild)
  THEN Panic(s1)
  ELSE IF At(W, s1.iWild) # Star
  THEN Goto(s1, "SeekEntry")
  ELSE s1

\* Lines 82-84: keep the fallback positions and leave the first loop.
Keep(st) ==
  [st EXCEPT !.iWildSequence = st.iWild, !.iTameSequence = st.iTame,
             !.pc = "SecondLoop"]

\* Line 71: a literal after the '*' run is searched for; a '?' is not.
SeekEntry(st, W, T) ==
  IF ~InRange(W, st.iWild)
  THEN Panic(st)
  ELSE IF At(W, st.iWild) # Question
  THEN Goto(st, "Seek")
  ELSE Keep(st)

\* Seek without the test for the end of the subject inside the scan.
SeekUnchecked(st, W, T) ==
  IF ~InRange(W, st.iWild) \/ ~InRange(T, st.iTame)
  THEN Panic(st)
  ELSE IF At(W, st.iWild) # At(T, st.iTame)
  THEN [st EXCEPT !.iTame = @ + 1]
  ELSE Keep(st)

\* Lines 72-84: scan the subject for the symbol after the '*' run.
Seek(st, W, T) ==
  IF ~InRange(W, st.iWild) \/ ~InRange(T, st.iTame)
  THEN Panic(st)
  ELSE IF At(W, st.iWild) # At(T, st.iTame)
  THEN IF Len(T) <= st.iTame + 1
       THEN Return([st EXCEPT !.iTame = @ + 1], FALSE)
       ELSE [st EXCEPT !.iTame = @ + 1]
  ELSE Keep(st)

\* Lines 93-94, 127: head of the second loop.
SecondLoop(st, W, T) ==
  IF Len(W) > st.iWild
  THEN IF ~InRange(W, st.iWild)
       THEN Panic(st)
       ELSE IF At(W, st.iWild) = Star
       THEN Goto(st, "SkipStarsAgain")
       ELSE Goto(st, "Compare")
  ELSE Goto(st, "Compare")

\* Lines 96-106: step over a further run of '*'.
SkipStarsAgain(st, W, T) ==
  LET s1 == [st EXCEPT !.iWild = @ + 1] IN
  IF Len(W) <= s1.iWild
  THEN Return(s1, TRUE)
  ELSE IF ~InRange(W, s1.iWild)
  THEN Panic(s1)
  ELSE IF At(W, s1.iWild) # Star
  THEN Goto(s1, "SeekAgainEntry")
  ELSE s1

\* Lines 125-126: keep the new fallback positions.
KeepAgain(st) ==
  [st EXCEPT !.iWildSequence = st.iWild, !.iTameSequence = st.iTame,
             !.pc = "EndCheck"]

\* Lines 108-113: the subject may be used up; else choose scan or no scan.
SeekAgainEntry(st, W, T) ==
  IF Len(T) <= st.iTame
  THEN Return(st, FALSE)
  ELSE IF ~InRange(W, st.iWild)
  THEN Panic(st)
  ELSE IF At(W, st.iWild) # Question
  THEN Goto(st, "SeekAgain")
  ELSE KeepAgain(st)

\* SeekAgain scanning from the old subject checkpoint, not from iTame: a
\* subject symbol already used for an earlier '*' is used again.
SeekAgainRescan(st, W, T) ==
  LET s0 == [st EXCEPT !.iTame = st.iTameSequence] IN
  IF Len(T) > s0.iTame
  THEN IF ~InRange(W, s0.iWild) \/ ~InRange(T, s0.iTame)
       THEN Panic(s0)
       ELSE IF At(W, s0.iWild) # At(T, s0.iTame)
       THEN IF Len(T) <= s0.iTame + 1
            THEN Return([s0 EXCEPT !.iTame = @ + 1], FALSE)
            ELSE [s0 EXCEPT !.iTame = @ + 1]
       ELSE KeepAgain(s0)
  ELSE KeepAgain(s0)

\* Lines 114-126: scan the subject for the symbol after the '*' run.
SeekAgain(st, W, T) ==
  IF Len(T) > st.iTame
  THEN IF ~InRange(W, st.iWild) \/ ~InRange(T, st.iTame)
       THEN Panic(st)
       ELSE IF At(W, st.iWild) # At(T, st.iTame)
       THEN IF Len(T) <= st.iTame + 1
            THEN Return([st EXCEPT !.iTame = @ + 1], FALSE)
            ELSE [st EXCEPT !.iTame = @ + 1]
       ELSE KeepAgain(st)
  ELSE KeepAgain(st)

\* Compare failing outright on a mismatch: only the first candidate split
\* of the last '*' is tried.
CompareFailsOutright(st, W, T) ==
  IF Len(T) <= st.iTame
  THEN Return(st, Len(W) <= st.iWild)
  ELSE IF Len(W) <= st.iWild
  THEN Return(st, FALSE)
  ELSE IF ~InRange(W, st.iWild) \/ ~InRange(T, st.iTame)
  THEN Panic(st)
  ELSE IF At(W, st.iWild) # At(T, st.iTame) /\ At(W, st.iWild) # Question
  THEN Return(st, FALSE)
  ELSE Goto(st, "EndCheck")

\* Compare taking a '?' on either side as a wildcard.
CompareSubjectWild(st, W, T) ==
  IF Len(T) <= st.iTame
  THEN Return(st, Len(W) <= st.iWild)
  ELSE IF Len(W) <= st.iWild
  THEN Goto(st, "Questions")
  ELSE IF ~InRange(W, st.iWild) \/ ~InRange(T, st.iTame)
  THEN Panic(st)
  ELSE IF /\ At(W, st.iWild) # At(T, st.iTame)
          /\ At(W, st.iWild) # Question
          /\ At(T, st.iTame) # Question
  THEN Goto(st, "Questions")
  ELSE Goto(st, "EndCheck")

\* Compare treating a used-up subject like a literal inequality: it falls
\* back when pattern symbols remain.
CompareFallsBackAtEnd(st, W, T) ==
  IF Len(T) <= st.iTame
  THEN IF Len(W) <= st.iWild
       THEN Return(st, TRUE)
       ELSE Goto(st, "Questions")
  ELSE IF Len(W) <= st.iWild
  THEN Goto(st, "Questions")
  ELSE IF ~InRange(W, st.iWild) \/ ~InRange(T, st.iTame)
  THEN Panic(st)
  ELSE IF At(W, st.iWild) # At(T, st.iTame) /\ At(W, st.iWild) # Question
  THEN Goto(st, "Questions")
  ELSE Goto(st, "EndCheck")

\* Lines 129-139: compare one symbol of each sequence.
Compare(st, W, T) ==
  IF Len(T) <= st.iTame
  THEN Return(st, Len(W) <= st.iWild)
  ELSE IF Len(W) <= st.iWild
  THEN Goto(st, "Questions")
  ELSE IF ~InRange(W, st.iWild) \/ ~InRange(T, st.iTame)
  THEN Panic(st)
  ELSE IF At(W, st.iWild) # At(T, st.iTame) /\ At(W, st.iWild) # Question
  THEN Goto(st, "Questions")
  ELSE Goto(st, "EndCheck")

\* Questions falling back in the pattern to the '*' itself, one symbol
\* before the pattern checkpoint.
QuestionsBackToStar(st, W, T) ==
  IF Len(W) > st.iWildSequence
  THEN IF ~InRange(W, st.iWildSequence)
       THEN Panic(st)
       ELSE IF At(W, st.iWildSequence) = Question
       THEN [st EXCEPT !.iWildSequence = @ + 1, !.iTameSequence = @ + 1]
       ELSE [st EXCEPT !.iWild = st.iWildSequence - 1, !.pc = "FallBack"]
  ELSE [st EXCEPT !.iWild = st.iWildSequence - 1, !.pc = "FallBack"]

\* Questions moving the fallback pair over every symbol that is not a '*'.
QuestionsSkipsLiterals(st, W, T) ==
  IF Len(W) > st.iWildSequence
  THEN IF ~InRange(W, st.iWildSequence)
       THEN Panic(st)
       ELSE IF At(W, st.iWildSequence) # Star
       THEN [st EXCEPT !.iWildSequence = @ + 1, !.iTameSequence = @ + 1]
       ELSE [st EXCEPT !.iWild = st.iWildSequence, !.pc = "FallBack"]
  ELSE [st EXCEPT !.iWild = st.iWildSequence, !.pc = "FallBack"]

\* Questions moving the pattern checkpoint over a '?' and leaving the
\* subject checkpoint behind.
QuestionsUnpaired(st, W, T) ==
  IF Len(W) > st.iWildSequence
  THEN IF ~InRange(W, st.iWildSequence)
       THEN Panic(st)
       ELSE IF At(W, st.iWildSequence) = Question
       THEN [st EXCEPT !.iWildSequence = @ + 1]
       ELSE [st EXCEPT !.iWild = st.iWildSequence, !.pc = "FallBack"]
  ELSE [st EXCEPT !.iWild = st.iWildSequence, !.pc = "FallBack"]

\* Lines 141-147: move the fallback pair over '?' symbols, then fall back
\* in the pattern.
Questions(st, W, T) ==
  IF Len(W) > st.iWildSequence
  THEN IF ~InRange(W, st.iWildSequence)
       THEN Panic(st)
       ELSE IF At(W, st.iWildSequence) = Question
       THEN [st EXCEPT !.iWildSequence = @ + 1, !.iTameSequence = @ + 1]
       ELSE [st EXCEPT !.iWild = st.iWildSequence, !.pc = "FallBack"]
  ELSE [st EXCEPT !.iWild = st.iWildSequence, !.pc = "FallBack"]

\* FallBack without "never so far again": the subject checkpoint stays.
FallBackStuck(st, W, T) ==
  LET s1 == st IN
  IF Len(T) <= s1.iTameSequence
  THEN Return(s1, Len(W) <= s1.iWild)
  ELSE IF Len(W) > s1.iWild
  THEN IF ~InRange(W, s1.iWild) \/ ~InRange(T, s1.iTameSequence)
       THEN Panic(s1)
       ELSE IF At(W, s1.iWild) = At(T, s1.iTameSequence)
       THEN [s1 EXCEPT !.iTame = s1.iTameSequence, !.pc = "EndCheck"]
       ELSE s1
  ELSE s1

\* FallBack comparing at iTame where iTameSequence is meant.
FallBackWrongIndex(st, W, T) ==
  LET s1 == [st EXCEPT !.iTameSequence = @ + 1] IN
  IF Len(T) <= s1.iTameSequence
  THEN Return(s1, Len(W) <= s1.iWild)
  ELSE IF Len(W) > s1.iWild
  THEN IF ~InRange(W, s1.iWild) \/ ~InRange(T, s1.iTame)
       THEN Panic(s1)
       ELSE IF At(W, s1.iWild) = At(T, s1.iTame)
       THEN [s1 EXCEPT !.iTame = s1.iTameSequence, !.pc = "EndCheck"]
       ELSE s1
  ELSE s1

\* FallBack returning true whenever the subject checkpoint reaches the end
\* of the subject, wherever the pattern checkpoint is.
FallBackAcceptsAtEnd(st, W, T) ==
  LET s1 == [st EXCEPT !.iTameSequence = @ + 1] IN
  IF Len(T) <= s1.iTameSequence
  THEN Return(s1, TRUE)
  ELSE IF Len(W) > s1.iWild
  THEN IF ~InRange(W, s1.iWild) \/ ~InRange(T, s1.iTameSequence)
       THEN Panic(s1)
       ELSE IF At(W, s1.iWild) = At(T, s1.iTameSequence)
       THEN [s1 EXCEPT !.iTame = s1.iTameSequence, !.pc = "EndCheck"]
       ELSE s1
  ELSE s1

\* Lines 150-167: one pass of the fall-back loop.
FallBack(st, W, T) ==
  LET s1 == [st EXCEPT !.iTameSequence = @ + 1] IN
  IF Len(T) <= s1.iTameSequence
  THEN Return(s1, Len(W) <= s1.iWild)
  ELSE IF Len(W) > s1.iWild
  THEN IF ~InRange(W, s1.iWild) \/ ~InRange(T, s1.iTameSequence)
       THEN Panic(s1)
       ELSE IF At(W, s1.iWild) = At(T, s1.iTameSequence)
       THEN [s1 EXCEPT !.iTame = s1.iTameSequence, !.pc = "EndCheck"]
       ELSE s1
  ELSE s1

\* Lines 172-181: the check for the end, then advance both indices.
EndCheck(st, W, T) ==
  IF Len(T) <= st.iTame
  THEN Return(st, Len(W) <= st.iWild)
  ELSE [st EXCEPT !.iWild = @ + 1, !.iTame = @ + 1, !.pc = "SecondLoop"]

\* Lines 28-183: the step the routine takes from the block it is at.
StepAscii(st, W, T) ==
  CASE st.pc = "FirstLoop" -> FirstLoop(st, W, T)
    [] st.pc = "TrailingStars" -> TrailingStars(st, W, T)
    [] st.pc = "SkipStars" -> SkipStars(st, W, T)
    [] st.pc = "SeekEntry" -> SeekEntry(st, W, T)
    [] st.pc = "Seek" -> Seek(st, W, T)
    [] st.pc = "SecondLoop" -> SecondLoop(st, W, T)
    [] st.pc = "SkipStarsAgain" -> SkipStarsAgain(st, W, T)
    [] st.pc = "SeekAgainEntry" -> SeekAgainEntry(st, W, T)
    [] st.pc = "SeekAgain" -> SeekAgain(st, W, T)
    [] st.pc = "Compare" -> Compare(st, W, T)
    [] st.pc = "Questions" -> Questions(st, W, T)
    [] st.pc = "FallBack" -> FallBack(st, W, T)
    [] st.pc = "EndCheck" -> EndCheck(st, W, T)
    [] OTHER -> st


----------------------------------------------------------------------------
\* FastWildCompareRuneSlices: the same routine, written out again over rune
\* slices.

\* Lines 200-254: one pass of the first loop.
RunesFirstLoop(st, W, T) ==
  IF Len(T) <= st.iWild
  THEN IF Len(W) > st.iWild
       THEN Goto(st, "TrailingStars")
       ELSE Return(st, TRUE)
  ELSE IF Len(W) <= st.iWild
  THEN Return(st, FALSE)
  ELSE IF ~InRange(W, st.iWild)
  THEN Panic(st)
  ELSE IF At(W, st.iWild) = Star
  THEN [st EXCEPT !.iTame = st.iWild, !.pc = "SkipStars"]
  ELSE IF ~InRange(T, st.iWild)
  THEN Panic(st)
  ELSE IF At(W, st.iWild) # At(T, st.iWild) /\ At(W, st.iWild) # Question
  THEN Return(st, FALSE)
  ELSE [st EXCEPT !.iWild = @ + 1]

\* Lines 204-212: the subject is used up; only '*' may remain in the pattern.
RunesTrailingStars(st, W, T) ==
  IF ~InRange(W, st.iWild)
  THEN Panic(st)
  ELSE IF At(W, st.iWild) = Star
  THEN IF Len(W) <= st.iWild + 1
       THEN Return([st EXCEPT !.iWild = @ + 1], TRUE)
       ELSE [st EXCEPT !.iWild = @ + 1]
  ELSE Return(st, FALSE)

\* Lines 222-232: step over the first run of '*'.
RunesSkipStars(st, W, T) ==
  LET s1 == [st EXCEPT !.iWild = @ + 1] IN
  IF Len(W) <= s1.iWild
  THEN Return(s1, TRUE)
  ELSE IF ~InRange(W, s1.iWild)
  THEN Panic(s1)
  ELSE IF At(W, s1.iWild) # Star
  THEN Goto(s1, "SeekEntry")
  ELSE s1

\* Lines 246-248: keep the fallback positions and leave the first loop.
RunesKeep(st) ==
  [st EXCEPT !.iWildSequence = st.iWild, !.iTameSequence = st.iTame,
             !.pc = "SecondLoop"]

\* Line 235: a literal after the '*' run is searched for; a '?' is not.
RunesSeekEntry(st, W, T) ==
  IF ~InRange(W, st.iWild)
  THEN Panic(st)
  ELSE IF At(W, st.iWild) # Question
  THEN Goto(st, "Seek")
  ELSE RunesKeep(st)

\* Lines 236-248: scan the subject for the symbol after the '*' run.
RunesSeek(st, W, T) ==
  IF ~InRange(W, st.iWild) \/ ~InRange(T, st.iTame)
  THEN Panic(st)
  ELSE IF At(W, st.iWild) # At(T, st.iTame)
  THEN IF Len(T) <= st.iTame + 1
       THEN Return([st EXCEPT !.iTame = @ + 1], FALSE)
       ELSE [st EXCEPT !.iTame = @ + 1]
  ELSE RunesKeep(st)

\* Lines 257-258, 291: head of the second loop.
RunesSecondLoop(st, W, T) ==
  IF Len(W) > st.iWild
  THEN IF ~InRange(W, st.iWild)
       THEN Panic(st)
       ELSE IF At(W, st.iWild) = Star
       THEN Goto(st, "SkipStarsAgain")
       ELSE Goto(st, "Compare")
  ELSE Goto(st, "Compare")

\* Lines 260-270: step over a further run of '*'.
RunesSkipStarsAgain(st, W, T) ==
  LET s1 == [st EXCEPT !.iWild = @ + 1] IN
  IF Len(W) <= s1.iWild
  THEN Return(s1, TRUE)
  ELSE IF ~InRange(W, s1.iWild)
  THEN Panic(s1)
  ELSE IF At(W, s1.iWild) # Star
  THEN Goto(s1, "SeekAgainEntry")
  ELSE s1

\* Lines 289-290: keep the new fallback positions.
RunesKeepAgain(st) ==
  [st EXCEPT !.iWildSequence = st.iWild, !.iTameSequence = st.iTame,
             !.pc = "EndCheck"]

\* Lines 272-277: the subject may be used up; else choose scan or no scan.
RunesSeekAgainEntry(st, W, T) ==
  IF Len(T) <= st.iTame
  THEN Return(st, FALSE)
  ELSE IF ~InRange(W, st.iWild)
  THEN Panic(st)
  ELSE IF At(W, st.iWild) # Question
  THEN Goto(st, "SeekAgain")
  ELSE RunesKeepAgain(st)

\* Lines 278-290: scan the subject for the symbol after the '*' run.
RunesSeekAgain(st, W, T) ==
  IF Len(T) > st.iTame
  THEN IF ~InRange(W, st.iWild) \/ ~InRange(T, st.iTame)
       THEN Panic(st)
       ELSE IF At(W, st.iWild) # At(T, st.iTame)
       THEN IF Len(T) <= st.iTame + 1
            THEN Return([st EXCEPT !.iTame = @ + 1], FALSE)
            ELSE [st EXCEPT !.iTame = @ + 1]
       ELSE RunesKeepAgain(st)
  ELSE RunesKeepAgain(st)

\* Lines 293-303: compare one symbol of each sequence.
RunesCompare(st, W, T) ==
  IF Len(T) <= st.iTame
  THEN Return(st, Len(W) <= st.iWild)
  ELSE IF Len(W) <= st.iWild
  THEN Goto(st, "Questions")
  ELSE IF ~InRange(W, st.iWild) \/ ~InRange(T, st.iTame)
  THEN Panic(st)
  ELSE IF At(W, st.iWild) # At(T, st.iTame) /\ At(W, st.iWild) # Question
  THEN Goto(st, "Questions")
  ELSE Goto(st, "EndCheck")

\* RunesQuestions drifted from its twin: the subject checkpoint is not moved
\* along with the pattern checkpoint.
RunesQuestionsDrift(st, W, T) ==
  IF Len(W) > st.iWildSequence
  THEN IF ~InRange(W, st.iWildSequence)
       THEN Panic(st)
       ELSE IF At(W, st.iWildSequence) = Question
       THEN [st EXCEPT !.iWildSequence = @ + 1]
       ELSE [st EXCEPT !.iWild = st.iWildSequence, !.pc = "FallBack"]
  ELSE [st EXCEPT !.iWild = st.iWildSequence, !.pc = "FallBack"]

\* Lines 305-311: move the fallback pair over '?' symbols, then fall back
\* in the pattern.
RunesQuestions(st, W, T) ==
  IF Len(W) > st.iWildSequence
  THEN IF ~InRange(W, st.iWildSequence)
       THEN Panic(st)
       ELSE IF At(W, st.iWildSequence) = Question
       THEN [st EXCEPT !.iWildSequence = @ + 1, !.iTameSequence = @ + 1]
       ELSE [st EXCEPT !.iWild = st.iWildSequence, !.pc = "FallBack"]
  ELSE [st EXCEPT !.iWild = st.iWildSequence, !.pc = "FallBack"]

\* Lines 314-331: one pass of the fall-back loop.
RunesFallBack(st, W, T) ==
  LET s1 == [st EXCEPT !.iTameSequence = @ + 1] IN
  IF Len(T) <= s1.iTameSequence
  THEN Return(s1, Len(W) <= s1.iWild)
  ELSE IF Len(W) > s1.iWild
  THEN IF ~InRange(W, s1.iWild) \/ ~InRange(T, s1.iTameSequence)
       THEN Panic(s1)
       ELSE IF At(W, s1.iWild) = At(T, s1.iTameSequence)
       THEN [s1 EXCEPT !.iTame = s1.iTameSequence, !.pc = "EndCheck"]
       ELSE s1
  ELSE s1

\* Lines 336-345: the check for the end, then advance both indices.
RunesEndCheck(st, W, T) ==
  IF Len(T) <= st.iTame
  THEN Return(st, Len(W) <= st.iWild)
  ELSE [st EXCEPT !.iWild = @ + 1, !.iTame = @ + 1, !.pc = "SecondLoop"]

\* Lines 192-347: the step the routine takes from the block it is at.
StepRunes(st, W, T) ==
  CASE st.pc = "FirstLoop" -> RunesFirstLoop(st, W, T)
    [] st.pc = "TrailingStars" -> RunesTrailingStars(st, W, T)
    [] st.pc = "SkipStars" -> RunesSkipStars(st, W, T)
    [] st.pc = "SeekEntry" -> RunesSeekEntry(st, W, T)
    [] st.pc = "Seek" -> RunesSeek(st, W, T)
    [] st.pc = "SecondLoop" -> RunesSecondLoop(st, W, T)
    [] st.pc = "SkipStarsAgain" -> RunesSkipStarsAgain(st, W, T)
    [] st.pc = "SeekAgainEntry" -> RunesSeekAgainEntry(st, W, T)
    [] st.pc = "SeekAgain" -> RunesSeekAgain(st, W, T)
    [] st.pc = "Compare" -> RunesCompare(st, W, T)
    [] st.pc = "Questions" -> RunesQuestions(st, W, T)
    [] st.pc = "FallBack" -> RunesFallBack(st, W, T)
    [] st.pc = "EndCheck" -> RunesEndCheck(st, W, T)
    [] OTHER -> st

----------------------------------------------------------------------------
\* A call of each routine on one pattern and one subject.

Init ==
  /\ strWild \in SeqsUpTo(Symbols, MaxWildLen)
  /\ strTame \in SeqsUpTo(Symbols, MaxTameLen)
  /\ ascii = Entry
  /\ runes = Entry
  /\ turn = "ascii"
  /\ iTameAtStar = 0
  /\ nFallBacks = 0

\* The steps of FastWildCompareAscii(strWild, strTame).
AsciiFirstLoop ==
  /\ ascii.pc = "FirstLoop"
  /\ ascii' = FirstLoop(ascii, strWild, strTame)
  /\ iTameAtStar' = IF ascii'.pc = "SkipStars" THEN ascii.iWild ELSE iTameAtStar
  /\ UNCHANGED <<strWild, strTame, runes, turn, nFallBacks>>

AsciiTrailingStars ==
  /\ ascii.pc = "TrailingStars"
  /\ ascii' = TrailingStars(ascii, strWild, strTame)
  /\ UNCHANGED <<strWild, strTame, runes, turn, iTameAtStar, nFallBacks>>

AsciiSkipStars ==
  /\ ascii.pc = "SkipStars"
  /\ ascii' = SkipStars(ascii, strWild, strTame)
  /\ UNCHANGED <<strWild, strTame, runes, turn, iTameAtStar, nFallBacks>>

AsciiSeekEntry ==
  /\ ascii.pc = "SeekEntry"
  /\ ascii' = SeekEntry(ascii, strWild, strTame)
  /\ UNCHANGED <<strWild, strTame, runes, turn, iTameAtStar, nFallBacks>>

AsciiSeek ==
  /\ ascii.pc = "Seek"
  /\ ascii' = Seek(ascii, strWild, strTame)
  /\ UNCHANGED <<strWild, strTame, runes, turn, iTameAtStar, nFallBacks>>

AsciiSecondLoop ==
  /\ ascii.pc = "SecondLoop"
  /\ ascii' = SecondLoop(ascii, strWild, strTame)
  /\ iTameAtStar' =
       IF ascii'.pc = "SkipStarsAgain" THEN ascii.iTame ELSE iTameAtStar
  /\ UNCHANGED <<strWild, strTame, runes, turn, nFallBacks>>

AsciiSkipStarsAgain ==
  /\ ascii.pc = "SkipStarsAgain"
  /\ ascii' = SkipStarsAgain(ascii, strWild, strTame)
  /\ UNCHANGED <<strWild, strTame, runes, turn, iTameAtStar, nFallBacks>>

AsciiSeekAgainEntry ==
  /\ ascii.pc = "SeekAgainEntry"
  /\ ascii' = SeekAgainEntry(ascii, strWild, strTame)
  /\ UNCHANGED <<strWild, strTame, runes, turn, iTameAtStar, nFallBacks>>

AsciiSeekAgain ==
  /\ ascii.pc = "SeekAgain"
  /\ ascii' = SeekAgain(ascii, strWild, strTame)
  /\ UNCHANGED <<strWild, strTame, runes, turn, iTameAtStar, nFallBacks>>

AsciiCompare ==
  /\ ascii.pc = "Compare"
  /\ ascii' = Compare(ascii, strWild, strTame)
  /\ nFallBacks' = IF ascii'.pc = "Questions" THEN nFallBacks + 1 ELSE nFallBacks
  /\ UNCHANGED <<strWild, strTame, runes, turn, iTameAtStar>>

AsciiQuestions ==
  /\ ascii.pc = "Questions"
  /\ ascii' = Questions(ascii, strWild, strTame)
  /\ UNCHANGED <<strWild, strTame, runes, turn, iTameAtStar, nFallBacks>>

AsciiFallBack ==
  /\ ascii.pc = "FallBack"
  /\ ascii' = FallBack(ascii, strWild, strTame)
  /\ UNCHANGED <<strWild, strTame, runes, turn, iTameAtStar, nFallBacks>>

AsciiEndCheck ==
  /\ ascii.pc = "EndCheck"
  /\ ascii' = EndCheck(ascii, strWild, strTame)
  /\ UNCHANGED <<strWild, strTame, runes, turn, iTameAtStar, nFallBacks>>

Next ==
  \/ AsciiFirstLoop
  \/ AsciiTrailingStars
  \/ AsciiSkipStars
  \/ AsciiSeekEntry
  \/ AsciiSeek
  \/ AsciiSecondLoop
  \/ AsciiSkipStarsAgain
  \/ AsciiSeekAgainEntry
  \/ AsciiSeekAgain
  \/ AsciiCompare
  \/ AsciiQuestions
  \/ AsciiFallBack
  \/ AsciiEndCheck

Spec == Init /\ [][Next]_vars

\* Calls on the pattern families of the test cases "a*bc" and "*a*a*...*",
\* against every subject over a wider alphabet.
MaxRepeat == 3
MaxFamilyTameLen == 5

\* 'c' and 'd' join the symbols of the subjects.
FamilySymbols == Symbols \cup {99, 100}

\* "a*bc"
PatternABC == <<97, Star, 98, 99>>

\* "*a" repeated k times, then a final '*'.
RECURSIVE StarA(_)
StarA(k) == IF k = 0 THEN <<Star>> ELSE <<Star, 97>> \o StarA(k - 1)

FamilyInit ==
  /\ strWild \in {PatternABC} \cup {StarA(k) : k \in 1..MaxRepeat}
  /\ strTame \in SeqsUpTo(FamilySymbols, MaxFamilyTameLen)
  /\ ascii = Entry
  /\ runes = Entry
  /\ turn = "ascii"
  /\ iTameAtStar = 0
  /\ nFallBacks = 0

FamilySpec == FamilyInit /\ [][Next]_vars

\* The call is not suspended: a step that can be taken is taken.
LiveSpec == Spec /\ WF_vars(Next)

----------------------------------------------------------------------------
\* Both routines called on the same pattern and subject, advanced in turn so
\* that the k-th step of one is followed by the k-th step of the other.  A
\* routine that has returned leaves the other to run on.

MayStepAscii == ascii.pc \notin Final /\ (turn = "ascii" \/ runes.pc \in Final)
MayStepRunes == runes.pc \notin Final /\ (turn = "runes" \/ ascii.pc \in Final)

PairAsciiFirstLoop ==
  /\ MayStepAscii
  /\ ascii.pc = "FirstLoop"
  /\ ascii' = FirstLoop(ascii, strWild, strTame)
  /\ turn' = "runes"
  /\ UNCHANGED <<strWild, strTame, runes, iTameAtStar, nFallBacks>>

PairAsciiTrailingStars ==
  /\ MayStepAscii
  /\ ascii.pc = "TrailingStars"
  /\ ascii' = TrailingStars(ascii, strWild, strTame)
  /\ turn' = "runes"
  /\ UNCHANGED <<strWild, strTame, runes, iTameAtStar, nFallBacks>>

PairAsciiSkipStars ==
  /\ MayStepAscii
  /\ ascii.pc = "SkipStars"
  /\ ascii' = SkipStars(ascii, strWild, strTame)
  /\ turn' = "runes"
  /\ UNCHANGED <<strWild, strTame, runes, iTameAtStar, nFallBacks>>

PairAsciiSeekEntry ==
  /\ MayStepAscii
  /\ ascii.pc = "SeekEntry"
  /\ ascii' = SeekEntry(ascii, strWild, strTame)
  /\ turn' = "runes"
  /\ UNCHANGED <<strWild, strTame, runes, iTameAtStar, nFallBacks>>

PairAsciiSeek ==
  /\ MayStepAscii
  /\ ascii.pc = "Seek"
  /\ ascii' = Seek(ascii, strWild, strTame)
  /\ turn' = "runes"
  /\ UNCHANGED <<strWild, strTame, runes, iTameAtStar, nFallBacks>>

PairAsciiSecondLoop ==
  /\ MayStepAscii
  /\ ascii.pc = "SecondLoop"
  /\ ascii' = SecondLoop(ascii, strWild, strTame)
  /\ turn' = "runes"
  /\ UNCHANGED <<strWild, strTame, runes, iTameAtStar, nFallBacks>>

PairAsciiSkipStarsAgain ==
  /\ MayStepAscii
  /\ ascii.pc = "SkipStarsAgain"
  /\ ascii' = SkipStarsAgain(ascii, strWild, strTame)
  /\ turn' = "runes"
  /\ UNCHANGED <<strWild, strTame, runes, iTameAtStar, nFallBacks>>

PairAsciiSeekAgainEntry ==
  /\ MayStepAscii
  /\ ascii.pc = "SeekAgainEntry"
  /\ ascii' = SeekAgainEntry(ascii, strWild, strTame)
  /\ turn' = "runes"
  /\ UNCHANGED <<strWild, strTame, runes, iTameAtStar, nFallBacks>>

PairAsciiSeekAgain ==
  /\ MayStepAscii
  /\ ascii.pc = "SeekAgain"
  /\ ascii' = SeekAgain(ascii, strWild, strTame)
  /\ turn' = "runes"
  /\ UNCHANGED <<strWild, strTame, runes, iTameAtStar, nFallBacks>>

PairAsciiCompare ==
  /\ MayStepAscii
  /\ ascii.pc = "Compare"
  /\ ascii' = Compare(ascii, strWild, strTame)
  /\ turn' = "runes"
  /\ UNCHANGED <<strWild, strTame, runes, iTameAtStar, nFallBacks>>

PairAsciiQuestions ==
  /\ MayStepAscii
  /\ ascii.pc = "Questions"
  /\ ascii' = Questions(ascii, strWild, strTame)
  /\ turn' = "runes"
  /\ UNCHANGED <<strWild, strTame, runes, iTameAtStar, nFallBacks>>

PairAsciiFallBack ==
  /\ MayStepAscii
  /\ ascii.pc = "FallBack"
  /\ ascii' = FallBack(ascii, strWild, strTame)
  /\ turn' = "runes"
  /\ UNCHANGED <<strWild, strTame, runes, iTameAtStar, nFallBacks>>

PairAsciiEndCheck ==
  /\ MayStepAscii
  /\ ascii.pc = "EndCheck"
  /\ ascii' = EndCheck(ascii, strWild, strTame)
  /\ turn' = "runes"
  /\ UNCHANGED <<strWild, strTame, runes, iTameAtStar, nFallBacks>>

PairRunesFirstLoop ==
  /\ MayStepRunes
  /\ runes.pc = "FirstLoop"
  /\ runes' = RunesFirstLoop(runes, strWild, strTame)
  /\ turn' = "ascii"
  /\ UNCHANGED <<strWild, strTame, ascii, iTameAtStar, nFallBacks>>

PairRunesTrailingStars ==
  /\ MayStepRunes
  /\ runes.pc = "TrailingStars"
  /\ runes' = RunesTrailingStars(runes, strWild, strTame)
  /\ turn' = "ascii"
  /\ UNCHANGED <<strWild, strTame, ascii, iTameAtStar, nFallBacks>>

PairRunesSkipStars ==
  /\ MayStepRunes
  /\ runes.pc = "SkipStars"
  /\ runes' = RunesSkipStars(runes, strWild, strTame)
  /\ turn' = "ascii"
  /\ UNCHANGED <<strWild, strTame, ascii, iTameAtStar, nFallBacks>>

PairRunesSeekEntry ==
  /\ MayStepRunes
  /\ runes.pc = "SeekEntry"
  /\ runes' = RunesSeekEntry(runes, strWild, strTame)
  /\ turn' = "ascii"
  /\ UNCHANGED <<strWild, strTame, ascii, iTameAtStar, nFallBacks>>

PairRunesSeek ==
  /\ MayStepRunes
  /\ runes.pc = "Seek"
  /\ runes' = RunesSeek(runes, strWild, strTame)
  /\ turn' = "ascii"
  /\ UNCHANGED <<strWild, strTame, ascii, iTameAtStar, nFallBacks>>

PairRunesSecondLoop ==
  /\ MayStepRunes
  /\ runes.pc = "SecondLoop"
  /\ runes' = RunesSecondLoop(runes, strWild, strTame)
  /\ turn' = "ascii"
  /\ UNCHANGED <<strWild, strTame, ascii, iTameAtStar, nFallBacks>>

PairRunesSkipStarsAgain ==
  /\ MayStepRunes
  /\ runes.pc = "SkipStarsAgain"
  /\ runes' = RunesSkipStarsAgain(runes, strWild, strTame)
  /\ turn' = "ascii"
  /\ UNCHANGED <<strWild, strTame, ascii, iTameAtStar, nFallBacks>>

PairRunesSeekAgainEntry ==
  /\ MayStepRunes
  /\ runes.pc = "SeekAgainEntry"
  /\ runes' = RunesSeekAgainEntry(runes, strWild, strTame)
  /\ turn' = "ascii"
  /\ UNCHANGED <<strWild, strTame, ascii, iTameAtStar, nFallBacks>>

PairRunesSeekAgain ==
  /\ MayStepRunes
  /\ runes.pc = "SeekAgain"
  /\ runes' = RunesSeekAgain(runes, strWild, strTame)
  /\ turn' = "ascii"
  /\ UNCHANGED <<strWild, strTame, ascii, iTameAtStar, nFallBacks>>

PairRunesCompare ==
  /\ MayStepRunes
  /\ runes.pc = "Compare"
  /\ runes' = RunesCompare(runes, strWild, strTame)
  /\ turn' = "ascii"
  /\ UNCHANGED <<strWild, strTame, ascii, iTameAtStar, nFallBacks>>

PairRunesQuestions ==
  /\ MayStepRunes
  /\ runes.pc = "Questions"
  /\ runes' = RunesQuestions(runes, strWild, strTame)
  /\ turn' = "ascii"
  /\ UNCHANGED <<strWild, strTame, ascii, iTameAtStar, nFallBacks>>

PairRunesFallBack ==
  /\ MayStepRunes
  /\ runes.pc = "FallBack"
  /\ runes' = RunesFallBack(runes, strWild, strTame)
  /\ turn' = "ascii"
  /\ UNCHANGED <<strWild, strTame, ascii, iTameAtStar, nFallBacks>>

PairRunesEndCheck ==
  /\ MayStepRunes
  /\ runes.pc = "EndCheck"
  /\ runes' = RunesEndCheck(runes, strWild, strTame)
  /\ turn' = "ascii"
  /\ UNCHANGED <<strWild, strTame, ascii, iTameAtStar, nFallBacks>>

PairNext ==
  \/ PairAsciiFirstLoop
  \/ PairAsciiTrailingStars
  \/ PairAsciiSkipStars
  \/ PairAsciiSeekEntry
  \/ PairAsciiSeek
  \/ PairAsciiSecondLoop
  \/ PairAsciiSkipStarsAgain
  \/ PairAsciiSeekAgainEntry
  \/ PairAsciiSeekAgain
  \/ PairAsciiCompare
  \/ PairAsciiQuestions
  \/ PairAsciiFallBack
  \/ PairAsciiEndCheck
  \/ PairRunesFirstLoop
  \/ PairRunesTrailingStars
  \/ PairRunesSkipStars
  \/ PairRunesSeekEntry
  \/ PairRunesSeek
  \/ PairRunesSecondLoop
  \/ PairRunesSkipStarsAgain
  \/ PairRunesSeekAgainEntry
  \/ PairRunesSeekAgain
  \/ PairRunesCompare
  \/ PairRunesQuestions
  \/ PairRunesFallBack
  \/ PairRunesEndCheck

PairSpec == Init /\ [][PairNext]_vars

----------------------------------------------------------------------------
\* The routines as functions: a call run from entry to its return.

RECURSIVE RunAscii(_, _, _)
RunAscii(st, W, T) ==
  IF st.pc \in Final THEN st ELSE RunAscii(StepAscii(st, W, T), W, T)

FastWildCompareAscii(W, T) == RunAscii(Entry, W, T)

RECURSIVE RunRunes(_, _, _)
RunRunes(st, W, T) ==
  IF st.pc \in Final THEN st ELSE RunRunes(StepRunes(st, W, T), W, T)

FastWildCompareRuneSlices(W, T) == RunRunes(Entry, W, T)

\* A finished call that returned b.
Returned(st, b) == st.pc = "done" /\ st.ret = b

----------------------------------------------------------------------------
\* Reference semantics of a pattern: '?' takes exactly one subject symbol,
\* '*' takes any number of them, any other symbol takes one equal symbol,
\* and the whole subject is taken by the whole pattern.
RECURSIVE Glob(_, _)
Glob(P, S) ==
  IF P = <<>>
  THEN S = <<>>
  ELSE IF Head(P) = Star
  THEN \E k \in 0..Len(S) : Glob(Tail(P), SubSeq(S, k + 1, Len(S)))
  ELSE /\ S # <<>>
       /\ (Head(P) = Question \/ Head(P) = Head(S))
       /\ Glob(Tail(P), Tail(S))

Has(s, x) == \E i \in 1..Len(s) : s[i] = x
OnlyStars(P) == \A i \in 1..Len(P) : P[i] = Star
NoWildcard(P) == ~Has(P, Star) /\ ~Has(P, Question)

\* Every maximal run of '*' replaced by one '*'.
RECURSIVE collapseStarRuns(_)
collapseStarRuns(P) ==
  IF Len(P) <= 1
  THEN P
  ELSE IF P[1] = Star /\ P[2] = Star
  THEN collapseStarRuns(Tail(P))
  ELSE <<P[1]>> \o collapseStarRuns(Tail(P))

\* The subject with each '*' and '?' replaced by a literal no pattern has.
Literalize(S) ==
  [i \in 1..Len(S) |-> IF S[i] \in {Star, Question} THEN Fresh ELSE S[i]]

\* The second loop was entered with the '*' run having taken subject symbols:
\* the subject checkpoint is ahead of the pattern checkpoint.
StarAbsorbed(st) == st.iWildSequence > 0 /\ st.iTameSequence > st.iWildSequence

\* A mismatch was met and the fallback pair was moved over a '?': only the
\* '?' skip of lines 141-145 leaves a '?' just before the pattern checkpoint.
SkippedQuestion(st, W) ==
  st.iWildSequence >= 1 /\ W[st.iWildSequence] = Question

----------------------------------------------------------------------------
\* C1: a finished call of FastWildCompareAscii returns true exactly when the
\* subject conforms to the pattern under the reference semantics.
C1_MatchesGlob ==
  ascii.pc = "done" => ascii.ret = Glob(strWild, strTame)

\* A match found after the '*' took subject symbols, with '*' and '?' in the pattern and a
\* '*' symbol in the subject.
C1_Witness ==
  /\ ascii.pc = "done" /\ ascii.ret
  /\ Has(strWild, Star) /\ Has(strWild, Question) /\ Has(strTame, Star)
  /\ StarAbsorbed(ascii)

\* C2: run on the same sequences, the two routines agree step for step on
\* their position and on all four indices, and return the same boolean.
C2_LockStep ==
  turn = "ascii" => ascii = runes

\* Both calls have returned true after a mismatch and a fall-back.
C2_Witness ==
  /\ turn = "ascii"
  /\ ascii.pc = "done" /\ runes.pc = "done" /\ runes.ret
  /\ SkippedQuestion(runes, strWild)

\* C3: no read of strWild or strTame is made outside the sequence, so a
\* call ends only by returning a boolean.
C3_NoPanic ==
  /\ ascii.pc # "panic"
  /\ ascii.pc = "done" => ascii.ret \in BOOLEAN

\* A call has returned from the second loop with the subject checkpoint run
\* to the end of the subject while pattern symbols were still unread.
C3_Witness ==
  /\ ascii.pc = "done"
  /\ ascii.iWildSequence > 0
  /\ ascii.iTameSequence >= Len(strTame)
  /\ ascii.iWild < Len(strWild)

\* C4: every call returns.
C4_Terminates == <>(ascii.pc = "done")

\* A call has returned after passes of the '?' skip and of the fall-back
\* loop, which ran the subject checkpoint to the end of the subject.
C4_Witness ==
  /\ ascii.pc = "done"
  /\ SkippedQuestion(ascii, strWild)
  /\ ascii.iTameSequence >= Len(strTame)

\* C5: the result is the result for the pattern with its '*' runs collapsed.
C5_CollapseStarRuns ==
  ascii.pc = "done" =>
    Returned(FastWildCompareAscii(collapseStarRuns(strWild), strTame), ascii.ret)

\* A pattern with an interior run of '*' followed by a symbol has matched.
C5_Witness ==
  /\ ascii.pc = "done" /\ ascii.ret
  /\ \E i \in 2..(Len(strWild) - 2) :
        strWild[i] = Star /\ strWild[i + 1] = Star /\ strWild[i + 2] # Star

\* C6: the result is the result for the subject with its '*' and '?'
\* symbols replaced by a literal that the pattern does not contain.
C6_SubjectLiteral ==
  ascii.pc = "done" =>
    Returned(FastWildCompareAscii(strWild, Literalize(strTame)), ascii.ret)

\* A subject holding '*' and '?' symbols went through the second loop
\* against a pattern with a literal.
C6_Witness ==
  /\ ascii.pc = "done"
  /\ Has(strTame, Star) /\ Has(strTame, Question)
  /\ Has(strWild, Star) /\ \E i \in 1..Len(strWild) : strWild[i] \in Literals
  /\ ascii.iWildSequence > 0 /\ ascii.iTameSequence > 0

\* C7: a sequence used as pattern and as subject matches.
C7_Reflexive ==
  (ascii.pc = "done" /\ strWild = strTame) => ascii.ret = TRUE

\* The sequence holds '*' and '?' and the call fell back on the way.
C7_Witness ==
  /\ ascii.pc = "done" /\ strWild = strTame
  /\ Has(strWild, Star) /\ Has(strWild, Question)
  /\ SkippedQuestion(ascii, strWild)

\* C8: a pattern without '?' and '*' matches the equal subject only.
C8_LiteralPattern ==
  (ascii.pc = "done" /\ NoWildcard(strWild)) => ascii.ret = (strTame = strWild)

\* A subject that only extends the literal pattern was refused.
C8_Witness ==
  /\ ascii.pc = "done" /\ NoWildcard(strWild) /\ ~ascii.ret
  /\ Len(strWild) >= 2 /\ Len(strTame) > Len(strWild)
  /\ SubSeq(strTame, 1, Len(strWild)) = strWild

\* C9: the empty subject is matched by the patterns made of '*' only.
C9_EmptySubject ==
  (ascii.pc = "done" /\ strTame = <<>>) => ascii.ret = OnlyStars(strWild)

\* The empty subject was refused for a pattern of a '*' and then a '?'.
C9_Witness ==
  /\ ascii.pc = "done" /\ strTame = <<>> /\ ~ascii.ret
  /\ strWild = <<Star, Question>>

\* C10: a pattern of one or more '*' and nothing else matches any subject.
C10_OnlyStars ==
  (ascii.pc = "done" /\ Len(strWild) >= 1 /\ OnlyStars(strWild)) => ascii.ret = TRUE

\* A pattern of several '*' has matched a subject holding '*' and '?'.
C10_Witness ==
  /\ ascii.pc = "done" /\ ascii.ret
  /\ Len(strWild) >= 2 /\ OnlyStars(strWild)
  /\ Has(strTame, Star) /\ Has(strTame, Question)

OnlyWildcards(P) == \A i \in 1..Len(P) : P[i] \in {Star, Question}
CountQuestions(P) == Cardinality({i \in 1..Len(P) : P[i] = Question})
AllA(S) == \A i \in 1..Len(S) : S[i] = 97

\* C11: a pattern of n '?' matches the subjects of length n; a pattern of
\* k '?' and one or more '*' matches the subjects of length k or more.
C11_QuestionCount ==
  (ascii.pc = "done" /\ OnlyWildcards(strWild)) =>
    ascii.ret = IF Has(strWild, Star)
                THEN Len(strTame) >= CountQuestions(strWild)
                ELSE Len(strTame) = CountQuestions(strWild)

\* A pattern with a '*' and two '?' after it was refused for a subject of
\* one symbol.
C11_Witness ==
  /\ ascii.pc = "done" /\ ~ascii.ret
  /\ OnlyWildcards(strWild) /\ Has(strWild, Star)
  /\ CountQuestions(strWild) = 2 /\ Len(strTame) = 1
  /\ ascii.iWildSequence > 0

\* C12: "a*bc" matches 'a', any filler, "bc" and does not match 'a', any
\* filler, "bd".
C12_Filler ==
  (/\ ascii.pc = "done" /\ strWild = PatternABC
   /\ Len(strTame) >= 3 /\ strTame[1] = 97
   /\ strTame[Len(strTame) - 1] = 98) =>
     /\ strTame[Len(strTame)] = 99 => ascii.ret = TRUE
     /\ strTame[Len(strTame)] = 100 => ascii.ret = FALSE

\* "a*bc" has matched a subject whose filler is itself "bc".
C12_Witness ==
  /\ ascii.pc = "done" /\ ascii.ret
  /\ strWild = PatternABC /\ strTame = <<97, 98, 99, 98, 99>>

\* C13: "*a" k times and a final '*' matches n 'a' symbols exactly when
\* n >= k.
C13_RepeatedA ==
  (ascii.pc = "done" /\ AllA(strTame)) =>
    \A k \in 1..MaxRepeat :
      strWild = StarA(k) => ascii.ret = (Len(strTame) >= k)

\* The longest pattern of the family was refused for one 'a' too few.
C13_Witness ==
  /\ ascii.pc = "done" /\ ~ascii.ret
  /\ strWild = StarA(MaxRepeat)
  /\ AllA(strTame) /\ Len(strTame) = MaxRepeat - 1

CountStars(P) == Cardinality({i \in 1..Len(P) : P[i] = Star})

\* C14: no step lowers a checkpoint; a step lowers iWild or iTame only in a
\* fall-back, to the checkpoint of that moment, and a fall-back that ends
\* without returning leaves iWild = iWildSequence and iTame = iTameSequence.
C14_Monotone ==
  [][/\ ascii'.iWildSequence >= ascii.iWildSequence
     /\ ascii'.iTameSequence >= ascii.iTameSequence
     /\ ascii'.iWild < ascii.iWild =>
          ascii.pc = "Questions" /\ ascii'.iWild = ascii'.iWildSequence
     /\ ascii'.iTame < ascii.iTame =>
          ascii.pc = "FallBack" /\ ascii'.iTame = ascii'.iTameSequence
     /\ (ascii.pc = "FallBack" /\ ascii'.pc = "EndCheck") =>
          /\ ascii'.iWild = ascii'.iWildSequence
          /\ ascii'.iTame = ascii'.iTameSequence]_vars

\* A fall-back has ended with both cursors on the checkpoint pair; the
\* pattern has one '*' run only, so the pair was not set by a second run.
C14_Witness ==
  /\ ascii.pc = "EndCheck" /\ nFallBacks >= 1
  /\ CountStars(strWild) = 1
  /\ ascii.iWild = ascii.iWildSequence /\ ascii.iTame = ascii.iTameSequence
  /\ ascii.iTameSequence >= 2

\* The blocks of the second loop (lines 93-182).
PhaseB ==
  {"SecondLoop", "SkipStarsAgain", "SeekAgainEntry", "SeekAgain",
   "Compare", "Questions", "FallBack", "EndCheck"}

\* C15 as stated: in the second loop the symbol just before the pattern
\* checkpoint is a '*'.
C15_AfterStar ==
  ascii.pc \in PhaseB =>
    ascii.iWildSequence >= 1 /\ strWild[ascii.iWildSequence] = Star

\* C15 as amended: in the second loop the pattern checkpoint lies after a
\* '*', with nothing but '?' symbols between that '*' and the checkpoint.
C15_AfterStarAndQuestions ==
  ascii.pc \in PhaseB =>
    /\ ascii.iWildSequence <= Len(strWild)
    /\ \E p \in 1..ascii.iWildSequence :
         /\ strWild[p] = Star
         /\ \A q \in (p + 1)..ascii.iWildSequence : strWild[q] = Question

\* The fall-back loop is running with the checkpoint moved over a '?'.
C15_Witness ==
  /\ ascii.pc = "FallBack"
  /\ SkippedQuestion(ascii, strWild)
  /\ ascii.iTameSequence < Len(strTame)

\* The subject is used up and the pattern still has a symbol to match.
SubjectExhausted(st) ==
  st.iTame >= Len(strTame) /\ st.iWild < Len(strWild)

\* A literal differs from the subject symbol, or the pattern is used up
\* while subject symbols remain.
Mismatch(st) ==
  /\ st.iTame < Len(strTame)
  /\ \/ st.iWild >= Len(strWild)
     \/ /\ At(strWild, st.iWild) # At(strTame, st.iTame)
        /\ At(strWild, st.iWild) # Question

\* C16 as stated: in the second loop a used-up subject with a pattern symbol
\* still to match leads to a fall-back, not to a return.
C16_FallsBackAtEnd ==
  [][(ascii.pc = "Compare" /\ SubjectExhausted(ascii)) =>
       ascii'.pc = "Questions"]_vars

\* C16 as amended: in the second loop a used-up subject with a pattern
\* symbol still to match returns false at once, with no fall-back begun;
\* the fall-back is taken on a literal inequality and on a used-up pattern
\* with subject symbols left.
C16_FailsAtEnd ==
  [][/\ (ascii.pc \in {"Compare", "SeekAgainEntry"} /\ SubjectExhausted(ascii)) =>
          Returned(ascii', FALSE) /\ nFallBacks' = nFallBacks
     /\ (ascii.pc = "Compare" /\ Mismatch(ascii)) =>
          ascii'.pc = "Questions" /\ nFallBacks' = nFallBacks + 1]_vars

\* A call on a pattern with one '*' run has returned false from the second
\* loop with the subject used up, a pattern symbol unread and no fall-back.
C16_Witness ==
  /\ ascii.pc = "done" /\ ~ascii.ret
  /\ CountStars(strWild) = 1 /\ ascii.iWildSequence > 0
  /\ SubjectExhausted(ascii)
  /\ ascii.iWild > ascii.iWildSequence
  /\ nFallBacks = 0

\* The blocks that handle the symbol after a '*' run.
Handling == {"SeekEntry", "Seek", "SeekAgainEntry", "SeekAgain"}

\* The subject holds c at an index t >= j.
OccursFrom(c, j) == \E t \in j..(Len(strTame) - 1) : At(strTame, t) = c

\* t is the smallest index >= j at which the subject holds c.
FirstFrom(c, j, t) ==
  /\ j <= t /\ InRange(strTame, t) /\ At(strTame, t) = c
  /\ \A u \in j..(t - 1) : At(strTame, u) # c

\* C17: with j the subject index at which a '*' run was met and c the
\* symbol after the run, a checkpoint recorded for the run is (index of c,
\* smallest t >= j with subject[t] = c) for a literal c and (index of c, j)
\* for '?'; the handling returns, and then false, only when the subject has
\* no c from j on or, for '?' in the second loop, no symbol from j on.
C17_CheckpointAfterStar ==
  [][ascii.pc \in Handling =>
       LET c == At(strWild, ascii.iWild)
           j == iTameAtStar
       IN /\ ascii'.pc \in {"SecondLoop", "EndCheck"} =>
               /\ ascii'.iWildSequence = ascii.iWild
               /\ c # Star /\ At(strWild, ascii.iWild - 1) = Star
               /\ IF c = Question
                  THEN ascii'.iTameSequence = j
                  ELSE FirstFrom(c, j, ascii'.iTameSequence)
          /\ ascii'.pc \in Final =>
               /\ Returned(ascii', FALSE)
               /\ IF c = Question
                  THEN ascii.pc = "SeekAgainEntry" /\ j >= Len(strTame)
                  ELSE ~OccursFrom(c, j)]_vars

\* The second '*' run of a pattern was handled at subject index j > 0 and
\* its checkpoint recorded at a literal found after index j.
C17_Witness ==
  /\ ascii.pc = "EndCheck" /\ nFallBacks = 0
  /\ CountStars(strWild) = 2 /\ ascii.iWildSequence >= 3
  /\ ascii.iWild = ascii.iWildSequence /\ ascii.iTame = ascii.iTameSequence
  /\ iTameAtStar > 0 /\ ascii.iTameSequence > iTameAtStar
  /\ At(strWild, ascii.iWildSequence) \in Literals

\* C18: a fall-back moves the subject checkpoint forward (the '?' skip never
\* back, each pass of the fall-back loop by one), a call begins at most
\* len(subject) fall-backs, and a pass that brings the subject checkpoint
\* to the end of the subject returns true exactly when the pattern
\* checkpoint is at the end of the pattern; a pass that does not, does not
\* return.
C18_NeverSoFarAgain ==
  /\ [](nFallBacks <= Len(strTame))
  /\ [][/\ ascii.pc = "Questions" =>
             ascii'.iTameSequence >= ascii.iTameSequence
        /\ ascii.pc = "FallBack" =>
             /\ ascii'.iTameSequence > ascii.iTameSequence
             /\ ascii'.iTameSequence >= Len(strTame) =>
                  Returned(ascii', ascii.iWildSequence >= Len(strWild))
             /\ ascii'.iTameSequence < Len(strTame) =>
                  ascii'.pc \notin Final]_vars

\* A call in its second fall-back or later has returned with the subject
\* checkpoint at the end of the subject.
C18_Witness ==
  /\ ascii.pc = "done"
  /\ nFallBacks >= 2
  /\ ascii.iTameSequence >= Len(strTame)

\* The first n symbols of a sequence.
Prefix(s, n) == SubSeq(s, 1, n)

\* C19: at the head of the second loop the pattern up to the checkpoint
\* matches the subject up to its checkpoint, the pattern up to iWild matches
\* the subject up to iTame, the cursors are equally far beyond the
\* checkpoint pair, and no '*' lies between the pattern checkpoint and
\* iWild.
C19_OneCheckpoint ==
  ascii.pc = "SecondLoop" =>
    /\ ascii.iWildSequence <= ascii.iWild /\ ascii.iWild <= Len(strWild)
    /\ ascii.iTameSequence <= ascii.iTame /\ ascii.iTame <= Len(strTame)
    /\ ascii.iWild - ascii.iWildSequence = ascii.iTame - ascii.iTameSequence
    /\ Glob(Prefix(strWild, ascii.iWildSequence),
            Prefix(strTame, ascii.iTameSequence))
    /\ Glob(Prefix(strWild, ascii.iWild), Prefix(strTame, ascii.iTame))
    /\ \A q \in ascii.iWildSequence..(ascii.iWild - 1) :
         At(strWild, q) # Star

\* The head of the second loop after a fall-back that moved the checkpoint
\* over a '?', with the cursors beyond the checkpoint pair.
C19_Witness ==
  /\ ascii.pc = "SecondLoop"
  /\ nFallBacks >= 1 /\ SkippedQuestion(ascii, strWild)
  /\ ascii.iWild > ascii.iWildSequence

====
